---- MODULE Spec2Model ----
(***************************************************************************)
(* The proc-macro server of crates/proc_macro_srv/src/lib.rs:              *)
(* ProcMacroSrv { expanders }, with expand, list_macros and expander.      *)
(*                                                                         *)
(* The process state is the environment, the working directory and the    *)
(* part of the file system the server looks at (the dylibs it stats and   *)
(* loads, the directories it changes to).  A server is one ProcMacroSrv   *)
(* value; `&mut self` allows it one call at a time.  Every call is cut    *)
(* into the steps at which it touches the process state or the file       *)
(* system, so that other activity (a rebuild of the dylib, a removed      *)
(* directory, a second server in another thread) can fall between them.   *)
(***************************************************************************)
EXTENDS Naturals, Sequences, FiniteSets

\* ---------------------------------------------------------------- bounds
\* longest env list of an ExpandMacro request
MaxEnv == 2
\* modification times are 1..MaxTime
MaxTime == 2
\* a server is asked nothing more once MaxFailedLoads of its calls of
\* dylib::Expander::new have failed
MaxFailedLoads == 2

\* ---------------------------------------------------------------- domains
Srv == {1, 2}
Paths == {"p", "q"}
Times == 1..MaxTime
Keys == Paths \X Times
Vars == {"K1", "K2"}
Vals == {"a", "b"}
Dirs == {"d0", "d1"}
\* env::var_os(k) = None
Unset == "unset"
\* Option::None of a directory
NoDir == "none"

VARIABLES
  env,               \* process environment: Vars -> Vals \cup {Unset}
  cwd,               \* process working directory
  dirs,              \* the directories that exist
  files,             \* Paths -> [exists, mtime, valid]
  debug_assertions,  \* cfg!(debug_assertions) of the build
  expanders,         \* self.expanders of each server: (path, mtime) -> handle
  new_calls,         \* per server and key: calls of dylib::Expander::new
  new_oks,           \* per server and key: calls of it that returned Ok
  last,              \* per server and path: mtime seen and handle returned by
                     \* the latest call of expander() for the path
  pc,                \* position of each server's current call
  task,              \* the request of the current call
  time,              \* `time` of expander()
  expander,          \* `expander` of expand / list_macros
  idx,               \* position of the `for (k, v) in &task.env` loops
  prev_env,          \* `prev_env` of expand
  prev_working_dir,  \* `prev_working_dir` of expand
  result,            \* `result` of expand (the handle's own outcome)
  seen,              \* the environment around the running macro: as it was
                     \* entered, as it returned (what env::var gives it)
  ret,               \* the value the call returned
  reported,          \* which eprintln! of the current call have printed
  pre                \* env, cwd and expanders when the current call started

proc == <<env, cwd, dirs, files, debug_assertions>>
cache == <<expanders, new_calls, new_oks, last>>
locals == <<task, time, expander, idx, prev_env, prev_working_dir, result, seen,
            reported, pre>>
vars == <<env, cwd, dirs, files, debug_assertions, expanders, new_calls, new_oks,
          last, pc, task, time, expander, idx, prev_env, prev_working_dir, result,
          seen, ret, reported, pre>>

\* ---------------------------------------------------------------- values
NoFile == [exists |-> FALSE, mtime |-> 1, valid |-> FALSE]
FileStates == {NoFile} \cup [exists : {TRUE}, mtime : Times, valid : BOOLEAN]

\* a dylib::Expander: `id` tells instances apart (the key it was created for
\* and the number of that creation), `loaded` is the mtime the file had when
\* Expander::new read it
NoHandle == [id |-> <<"", 0, 0>>, loaded |-> 0]

NoResult == [kind |-> "None", ty |-> "None", val |-> <<>>]
Ok(ty, v) == [kind |-> "Ok", ty |-> ty, val |-> v]
Err(ty, v) == [kind |-> "Err", ty |-> ty, val |-> v]

EmptyMap == <<>>

\* the (name, value) pairs requests are made of: K1 is unset when the process
\* starts, K2 is set to "a"
Overrides == {<<"K1", "a">>, <<"K1", "b">>, <<"K2", "b">>}
EnvLists(n) == UNION {[1..k -> Overrides] : k \in 0..n}

NoTask == [op |-> "none", lib |-> "p", env |-> <<>>, current_dir |-> NoDir]
NoEnv == [v \in Vars |-> Unset]
NoPre == [env |-> NoEnv, cwd |-> NoDir, expanders |-> EmptyMap]
NoLast == [time |-> 0, expander |-> NoHandle]

\* what Expander::expand of a loaded dylib can return: a tree, an error the
\* macro reported, or the message of a panic caught inside the bridge
ExpandOutcomes ==
  {Ok("Subtree", <<"tree">>), Err("String", <<"macro error">>),
   Err("String", <<"panicked">>)}

\* ---------------------------------------------------------------- helpers
\* HashMap::insert
MapInsert(m, k, v) == [x \in DOMAIN m \cup {k} |-> IF x = k THEN v ELSE m[x]]

\* env::set_var / env::remove_var on the process environment
set_var(e, k, v) == [e EXCEPT ![k] = v]
remove_var(e, k) == [e EXCEPT ![k] = Unset]

\* prev_env.insert(k.as_str(), env::var_os(k))
Snapshot(prev, e, k) == MapInsert(prev, k, e[k])

\* match &prev_env[k] { Some(v) => set_var(k, v), None => remove_var(k) }
Restore_Forgotten(e, prev, k) == e
Restore(e, prev, k) ==
  IF prev[k] # Unset THEN set_var(e, k, prev[k]) ELSE remove_var(e, k)

\* std::env::current_dir().ok(): fails when the directory is gone
current_dir(c, ds) == IF c \in ds THEN c ELSE NoDir

\* std::env::set_current_dir(dir) succeeds iff dir exists
ChdirOk(d, ds) == d \in ds
set_current_dir(c, d, ds) == IF ChdirOk(d, ds) THEN d ELSE c

PrevWorkingDir_ReadsAlways(cd, c, ds) == current_dir(c, ds)
PrevWorkingDir_AfterChange(cd, c, ds) ==
  IF cd # NoDir THEN current_dir(set_current_dir(c, cd, ds), ds) ELSE NoDir
\* the value of `match task.current_dir { Some(dir) => { let prev_working_dir =
\* current_dir().ok(); ..; prev_working_dir } None => None }`, with `c` the
\* working directory before the change
PrevWorkingDir(cd, c, ds) == IF cd # NoDir THEN current_dir(c, ds) ELSE NoDir

\* self.expanders.entry(key): the handle of Entry::Occupied, NoHandle for
\* Entry::Vacant
Lookup_Never(m, key) == NoHandle
Lookup_PathOnly(m, key) ==
  IF \E k \in DOMAIN m : k[1] = key[1]
    THEN m[CHOOSE k \in DOMAIN m : k[1] = key[1]]
    ELSE NoHandle
Lookup(m, key) == IF key \in DOMAIN m THEN m[key] ELSE NoHandle

\* dylib::Expander::new(path): Ok iff the file is there and is a loadable
\* proc-macro dylib
NewOk(f) == f.exists /\ f.valid

AfterNew_InsertAnyway(m, key, h, ok) == MapInsert(m, key, h)
\* Entry::Vacant(v) => v.insert(dylib::Expander::new(path).map_err(..)?):
\* the `?` leaves before the insert
AfterNew(m, key, h, ok) == IF ok THEN MapInsert(m, key, h) ELSE m

\* the error strings of expander()
MetadataErr(path) == <<"Failed to get file metadata for ", path>>
CreateErr(path) == <<"Cannot create expander for ", path>>

\* what a failed self.expander(..) makes of the call: expand maps the error
\* through a closure that holds debug_assert!(false, ..); list_macros uses `?`
LoadFailRet(op, err) ==
  IF op = "expand"
    THEN Err("PanicMessage", <<"failed to load macro: ">> \o err)
    ELSE Err("String", err)
LoadFailPanics_AnyCaller(op, dbg) == dbg
LoadFailPanics(op, dbg) == op = "expand" /\ dbg

MapErrPanicMessage_FailsOnReport(r) ==
  IF r.kind = "Err" \/ \E s \in Srv : reported[s] # {}
    THEN Err("PanicMessage", r.val)
    ELSE Ok("FlatTree", r.val)
\* result.map_err(PanicMessage)
MapErrPanicMessage(r) == IF r.kind = "Err" THEN Err("PanicMessage", r.val) ELSE Ok("FlatTree", r.val)

\* the calls of dylib::Expander::new that returned Err, over all keys
RECURSIVE FailedOver(_, _, _)
FailedOver(calls, oks, ks) ==
  IF ks = {} THEN 0
  ELSE LET k == CHOOSE x \in ks : TRUE
       IN (calls[k] - oks[k]) + FailedOver(calls, oks, ks \ {k})
FailedLoads(s) == FailedOver(new_calls[s], new_oks[s], Keys)

\* ---------------------------------------------------------------- tasks
ExpandTasks(libs, envs, cds) ==
  [op : {"expand"}, lib : libs, env : envs, current_dir : cds]
ListTasks(libs) ==
  [op : {"list_macros"}, lib : libs, env : {<<>>}, current_dir : {NoDir}]

\* ---------------------------------------------------------------- Init
TypeInit ==
  /\ cwd = "d0"
  /\ dirs = Dirs
  /\ debug_assertions \in BOOLEAN
  /\ expanders = [s \in Srv |-> EmptyMap]
  /\ new_calls = [s \in Srv |-> [k \in Keys |-> 0]]
  /\ new_oks = [s \in Srv |-> [k \in Keys |-> 0]]
  /\ last = [s \in Srv |-> [p \in Paths |-> NoLast]]
  /\ pc = [s \in Srv |-> "idle"]
  /\ task = [s \in Srv |-> NoTask]
  /\ time = [s \in Srv |-> 0]
  /\ expander = [s \in Srv |-> NoHandle]
  /\ idx = [s \in Srv |-> 0]
  /\ prev_env = [s \in Srv |-> EmptyMap]
  /\ prev_working_dir = [s \in Srv |-> NoDir]
  /\ result = [s \in Srv |-> NoResult]
  /\ seen = [s \in Srv |-> <<>>]
  /\ ret = [s \in Srv |-> NoResult]
  /\ reported = [s \in Srv |-> {}]
  /\ pre = [s \in Srv |-> NoPre]

\* ---------------------------------------------------------------- steps
\* a call of expand / list_macros begins
Start(s, t) ==
  /\ pc[s] = "idle"
  /\ FailedLoads(s) < MaxFailedLoads
  /\ pc' = [pc EXCEPT ![s] = "stat"]
  /\ task' = [task EXCEPT ![s] = t]
  /\ pre' = [pre EXCEPT ![s] = [env |-> env, cwd |-> cwd, expanders |-> expanders[s]]]
  /\ UNCHANGED <<proc, cache, time, expander, idx, prev_env, prev_working_dir,
                 result, seen, ret, reported>>

Failed_GoesOn(s, err) == pc' = [pc EXCEPT ![s] = "chdir"] /\ UNCHANGED ret
\* how a call leaves expander() with an error
Failed(s, err) ==
  IF LoadFailPanics(task[s].op, debug_assertions)
    THEN pc' = [pc EXCEPT ![s] = "panicked"] /\ UNCHANGED ret
    ELSE /\ pc' = [pc EXCEPT ![s] = "done"]
         /\ ret' = [ret EXCEPT ![s] = LoadFailRet(task[s].op, err)]

\* expander(): fs::metadata(path).and_then(|it| it.modified())
Stat(s) ==
  /\ pc[s] = "stat"
  /\ IF files[task[s].lib].exists
       THEN /\ time' = [time EXCEPT ![s] = files[task[s].lib].mtime]
            /\ pc' = [pc EXCEPT ![s] = "entry"]
            /\ UNCHANGED <<ret, last>>
       ELSE /\ Failed(s, MetadataErr(task[s].lib))
            /\ last' = [last EXCEPT ![s][task[s].lib] = NoLast]
            /\ UNCHANGED time
  /\ UNCHANGED <<proc, expanders, new_calls, new_oks, task, expander, idx, prev_env,
                 prev_working_dir, result, seen, reported, pre>>

AfterEntry_NoOverrides(t) == IF t.op = "list_macros" THEN "done" ELSE "chdir"
AfterEntry_SkipsExpander(t) ==
  IF t.op = "list_macros" THEN "done" ELSE "restore_dir"
\* where a call goes once it holds its handle
AfterEntry(t) ==
  IF t.op = "list_macros" THEN "done"
  ELSE IF Len(t.env) > 0 THEN "var_os" ELSE "chdir"

\* expander(): self.expanders.entry((path, time)), loading when vacant
Entry(s) ==
  LET lib == task[s].lib
      key == <<lib, time[s]>>
      occupied == Lookup(expanders[s], key)
      vacant == occupied = NoHandle
      ok == NewOk(files[lib])
      h == IF vacant
             THEN [id |-> <<lib, time[s], new_oks[s][key] + 1>>,
                   loaded |-> files[lib].mtime]
             ELSE occupied
  IN
  /\ pc[s] = "entry"
  /\ new_calls' = [new_calls EXCEPT ![s][key] = IF vacant THEN @ + 1 ELSE @]
  /\ new_oks' = [new_oks EXCEPT ![s][key] = IF vacant /\ ok THEN @ + 1 ELSE @]
  /\ expanders' = [expanders EXCEPT ![s] = IF vacant THEN AfterNew(@, key, h, ok) ELSE @]
  /\ IF vacant /\ ~ok
       THEN /\ Failed(s, CreateErr(lib))
            /\ last' = [last EXCEPT ![s][lib] = [time |-> time[s], expander |-> NoHandle]]
            /\ UNCHANGED <<expander, idx>>
       ELSE /\ expander' = [expander EXCEPT ![s] = h]
            /\ last' = [last EXCEPT ![s][lib] = [time |-> time[s], expander |-> h]]
            /\ pc' = [pc EXCEPT ![s] = AfterEntry(task[s])]
            /\ idx' = [idx EXCEPT ![s] = IF AfterEntry(task[s]) = "var_os" THEN 1 ELSE 0]
            /\ ret' = [ret EXCEPT ![s] =
                         IF task[s].op = "list_macros" THEN Ok("Vec", <<"macros">>) ELSE @]
  /\ UNCHANGED <<proc, task, time, prev_env, prev_working_dir, result, seen,
                 reported, pre>>

\* first loop, first half: prev_env.insert(k.as_str(), env::var_os(k))
VarOs(s) ==
  /\ pc[s] = "var_os"
  /\ prev_env' = [prev_env EXCEPT ![s] = Snapshot(@, env, task[s].env[idx[s]][1])]
  /\ pc' = [pc EXCEPT ![s] = "set_var"]
  /\ UNCHANGED <<proc, cache, task, time, expander, idx, prev_working_dir, result,
                 seen, ret, reported, pre>>

\* first loop, second half: env::set_var(k, v)
SetVar(s) ==
  /\ pc[s] = "set_var"
  /\ env' = set_var(env, task[s].env[idx[s]][1], task[s].env[idx[s]][2])
  /\ IF idx[s] < Len(task[s].env)
       THEN idx' = [idx EXCEPT ![s] = @ + 1] /\ pc' = [pc EXCEPT ![s] = "var_os"]
       ELSE idx' = [idx EXCEPT ![s] = 0] /\ pc' = [pc EXCEPT ![s] = "chdir"]
  /\ UNCHANGED <<cwd, dirs, files, debug_assertions, cache, task, time, expander,
                 prev_env, prev_working_dir, result, seen, ret, reported, pre>>

\* let prev_working_dir = match task.current_dir { .. }
Chdir(s) ==
  /\ pc[s] = "chdir"
  /\ IF task[s].current_dir # NoDir
       THEN /\ cwd' = set_current_dir(cwd, task[s].current_dir, dirs)
            /\ reported' = [reported EXCEPT ![s] =
                 IF ChdirOk(task[s].current_dir, dirs) THEN @ ELSE @ \cup {"chdir"}]
       ELSE UNCHANGED <<cwd, reported>>
  /\ prev_working_dir' =
       [prev_working_dir EXCEPT ![s] = PrevWorkingDir(task[s].current_dir, cwd, dirs)]
  /\ pc' = [pc EXCEPT ![s] = "invoke"]
  /\ UNCHANGED <<env, dirs, files, debug_assertions, cache, task, time, expander,
                 idx, prev_env, result, seen, ret, pre>>

\* expander.expand(&task.macro_name, &macro_body, attributes.as_ref()) is
\* entered: the macro runs
Invoke(s) ==
  /\ pc[s] = "invoke"
  /\ pc' = [pc EXCEPT ![s] = "running"]
  /\ seen' = [seen EXCEPT ![s] = <<env>>]
  /\ UNCHANGED <<proc, cache, task, time, expander, idx, prev_env, prev_working_dir,
                 result, ret, reported, pre>>

\* expander.expand(..) returns its outcome
Yield(s) ==
  /\ pc[s] = "running"
  /\ \E r \in ExpandOutcomes : result' = [result EXCEPT ![s] = r]
  /\ seen' = [seen EXCEPT ![s] = Append(@, env)]
  /\ IF Len(task[s].env) > 0
       THEN idx' = [idx EXCEPT ![s] = 1] /\ pc' = [pc EXCEPT ![s] = "restore"]
       ELSE UNCHANGED idx /\ pc' = [pc EXCEPT ![s] = "restore_dir"]
  /\ UNCHANGED <<proc, cache, task, time, expander, prev_env, prev_working_dir,
                 ret, reported, pre>>

\* second loop: one `match &prev_env[k.as_str()]`
RestoreVar(s) ==
  /\ pc[s] = "restore"
  /\ env' = Restore(env, prev_env[s], task[s].env[idx[s]][1])
  /\ IF idx[s] < Len(task[s].env)
       THEN idx' = [idx EXCEPT ![s] = @ + 1] /\ UNCHANGED pc
       ELSE idx' = [idx EXCEPT ![s] = 0] /\ pc' = [pc EXCEPT ![s] = "restore_dir"]
  /\ UNCHANGED <<cwd, dirs, files, debug_assertions, cache, task, time, expander,
                 prev_env, prev_working_dir, result, seen, ret, reported, pre>>

\* if let Some(dir) = prev_working_dir { set_current_dir(&dir) }, and then
\* result.map_err(PanicMessage) is returned
RestoreDir(s) ==
  /\ pc[s] = "restore_dir"
  /\ IF prev_working_dir[s] # NoDir
       THEN /\ cwd' = set_current_dir(cwd, prev_working_dir[s], dirs)
            /\ reported' = [reported EXCEPT ![s] =
                 IF ChdirOk(prev_working_dir[s], dirs) THEN @ ELSE @ \cup {"restore"}]
       ELSE UNCHANGED <<cwd, reported>>
  /\ ret' = [ret EXCEPT ![s] = MapErrPanicMessage(result[s])]
  /\ pc' = [pc EXCEPT ![s] = "done"]
  /\ UNCHANGED <<env, dirs, files, debug_assertions, cache, task, time, expander,
                 idx, prev_env, prev_working_dir, result, seen, pre>>

\* the caller has the returned value; the call's frame is gone
Return(s) ==
  /\ pc[s] = "done"
  /\ pc' = [pc EXCEPT ![s] = "idle"]
  /\ task' = [task EXCEPT ![s] = NoTask]
  /\ time' = [time EXCEPT ![s] = 0]
  /\ expander' = [expander EXCEPT ![s] = NoHandle]
  /\ idx' = [idx EXCEPT ![s] = 0]
  /\ prev_env' = [prev_env EXCEPT ![s] = EmptyMap]
  /\ prev_working_dir' = [prev_working_dir EXCEPT ![s] = NoDir]
  /\ result' = [result EXCEPT ![s] = NoResult]
  /\ seen' = [seen EXCEPT ![s] = <<>>]
  /\ ret' = [ret EXCEPT ![s] = NoResult]
  /\ reported' = [reported EXCEPT ![s] = {}]
  /\ pre' = [pre EXCEPT ![s] = NoPre]
  /\ UNCHANGED <<proc, cache>>

\* ---------------------------------------------------------------- the world
\* a build writes the dylib at `p` (or something else does): new mtime, and
\* the file is or is not a loadable dylib
WriteFile(p) ==
  /\ \E f \in FileStates \ {NoFile} : f # files[p] /\ files' = [files EXCEPT ![p] = f]
  /\ UNCHANGED <<env, cwd, dirs, debug_assertions, cache, pc, locals, ret>>

RemoveFile(p) ==
  /\ files[p].exists
  /\ files' = [files EXCEPT ![p] = NoFile]
  /\ UNCHANGED <<env, cwd, dirs, debug_assertions, cache, pc, locals, ret>>

RemoveDir(d) ==
  /\ d \in dirs
  /\ dirs' = dirs \ {d}
  /\ UNCHANGED <<env, cwd, files, debug_assertions, cache, pc, locals, ret>>

CreateDir(d) ==
  /\ d \notin dirs
  /\ dirs' = dirs \cup {d}
  /\ UNCHANGED <<env, cwd, files, debug_assertions, cache, pc, locals, ret>>

\* ---------------------------------------------------------------- specifications
Idle == \A s \in Srv : pc[s] = "idle"

Step(s) ==
  \/ Stat(s)
  \/ Entry(s)
  \/ VarOs(s)
  \/ SetVar(s)
  \/ Chdir(s)
  \/ Invoke(s)
  \/ Yield(s)
  \/ RestoreVar(s)
  \/ RestoreDir(s)
  \/ Return(s)

\* One server whose calls are serialized; the directories come and go.
ScopeTasks ==
  ExpandTasks({"p"}, EnvLists(MaxEnv), Dirs \cup {NoDir}) \cup ListTasks(Paths)

Init ==
  /\ TypeInit
  /\ env = [v \in Vars |-> IF v = "K1" THEN Unset ELSE "a"]
  /\ files \in [Paths -> FileStates]
  /\ files["q"] = NoFile
  /\ files["p"].mtime = 1

Next ==
  \/ \E t \in ScopeTasks : Idle /\ Start(1, t)
  \/ Step(1)
  \/ \E d \in Dirs : RemoveDir(d)
  \/ \E d \in Dirs : CreateDir(d)

Spec == Init /\ [][Next]_vars

\* One server whose calls are serialized, asked for the macros of dylibs that
\* are built, rebuilt, broken and removed while it runs.
CacheTasks == ExpandTasks({"p"}, {<<>>}, {NoDir}) \cup ListTasks({"p"})

InitCache ==
  /\ TypeInit
  /\ env = [v \in Vars |-> Unset]
  /\ files = [p \in Paths |-> NoFile]

NextCache ==
  \/ \E t \in CacheTasks : Idle /\ Start(1, t)
  \/ Stat(1)
  \/ Entry(1)
  \/ Chdir(1)
  \/ Invoke(1)
  \/ Yield(1)
  \/ RestoreDir(1)
  \/ Return(1)
  \/ WriteFile("p")
  \/ RemoveFile("p")

SpecCache == InitCache /\ [][NextCache]_vars

\* Two servers in two threads of one process, one expand each, not
\* serialized: their steps interleave over the one process environment.
ConcTasks == ExpandTasks({"p"}, {<<<<"K1", v>>>> : v \in Vals}, {NoDir})

InitConc ==
  /\ TypeInit
  /\ env = NoEnv
  /\ files = [p \in Paths |-> IF p = "p" THEN [exists |-> TRUE, mtime |-> 1, valid |-> TRUE]
                                          ELSE NoFile]

NextConc ==
  \E s \in Srv :
    \/ \E t \in ConcTasks : Start(s, t)
    \/ Stat(s)
    \/ Entry(s)
    \/ VarOs(s)
    \/ SetVar(s)
    \/ Chdir(s)
    \/ Invoke(s)
    \/ Yield(s)
    \/ RestoreVar(s)
    \/ RestoreDir(s)

SpecConc == InitConc /\ [][NextConc]_vars

\* ---------------------------------------------------------------- claims
\* the variables a request names, and the value it asks for each (a later
\* pair of the list overrides an earlier pair of the same name)
Named(t) == {t.env[i][1] : i \in 1..Len(t.env)}
LastPair(t, k) == CHOOSE i \in 1..Len(t.env) :
                    /\ t.env[i][1] = k
                    /\ \A j \in (i + 1)..Len(t.env) : t.env[j][1] # k
Requested(t, k) == t.env[LastPair(t, k)][2]
Distinct(t) == \A i, j \in 1..Len(t.env) : t.env[i][1] = t.env[j][1] => i = j

\* the call of server s is an expand that got its handle / has returned
Expanding(s) == task[s].op = "expand" /\ expander[s] # NoHandle
Returned(s) == pc[s] = "done"

\* C1: once an expand call has completed, whether the expander returned a
\* tree or a failure, every variable named in the overrides has exactly its
\* value from before the call (or is absent if it was absent).
C1_EnvBracketExact ==
  \A s \in Srv :
    Returned(s) /\ Expanding(s) =>
      \A k \in Named(task[s]) : env[k] = pre[s].env[k]

\* C1, for the requests that name no variable twice: the part of the claim
\* that the code keeps
C1_EnvBracketDistinct ==
  \A s \in Srv :
    Returned(s) /\ Expanding(s) /\ Distinct(task[s]) => env = pre[s].env

\* C4 as stated: if a working-directory override is supplied and changing to
\* it succeeds, the working directory after expand returns is the one before
\* the call.
C4_CwdBracket ==
  \A s \in Srv :
    Returned(s) /\ Expanding(s) /\ task[s].current_dir # NoDir
      /\ "chdir" \notin reported[s]
    => cwd = pre[s].cwd

\* C4 amended: if the override is supplied and changing to it succeeds, the
\* working directory after expand returns is the one before the call when
\* that directory could be read (current_dir() gave Some) and changing back
\* to it succeeded; otherwise the process is left in the override directory.
C4_CwdBracketAmended ==
  \A s \in Srv :
    Returned(s) /\ Expanding(s) /\ task[s].current_dir # NoDir
      /\ "chdir" \notin reported[s]
    => cwd = IF prev_working_dir[s] # NoDir /\ "restore" \notin reported[s]
               THEN pre[s].cwd
               ELSE task[s].current_dir

\* C4 witness: an expand whose macro failed went to another directory and
\* came back
C4_Witness ==
  /\ Returned(1) /\ Expanding(1)
  /\ task[1].current_dir # NoDir /\ task[1].current_dir # pre[1].cwd
  /\ reported[1] = {}
  /\ prev_working_dir[1] = pre[1].cwd
  /\ result[1].kind = "Err"
  /\ cwd = pre[1].cwd

\* C6: an expander that reports a failure or aborts makes expand return an
\* Err(PanicMessage); afterwards the environment is restored, the working
\* directory is restored (stated here for the requests that do not override
\* it), the cache holds what it held, and the server is ready for the next
\* request.
C6_PanicIsolation ==
  \A s \in Srv :
    Returned(s) /\ Expanding(s) /\ result[s].kind = "Err" =>
      /\ ret[s] = Err("PanicMessage", result[s].val)
      /\ env = pre[s].env
      /\ task[s].current_dir = NoDir => cwd = pre[s].cwd
      /\ \A k \in DOMAIN pre[s].expanders :
           k \in DOMAIN expanders[s] /\ expanders[s][k] = pre[s].expanders[k]
      /\ ENABLED Return(s)

C10_StrictBracket ==
  \A s \in Srv :
    Expanding(s) =>
      /\ pc[s] \in {"var_os", "set_var", "chdir", "invoke", "running"} =>
           result[s] = NoResult
      /\ pc[s] \in {"var_os", "set_var", "chdir", "invoke"} => seen[s] = <<>>
      /\ pc[s] \in {"invoke", "running"} =>
           /\ \A k \in Named(task[s]) :
                k \in DOMAIN prev_env[s] /\ env[k] = Requested(task[s], k)
           /\ task[s].current_dir # NoDir /\ "chdir" \notin reported[s] =>
                cwd = task[s].current_dir
           /\ "restore" \notin reported[s]
      /\ pc[s] \in {"restore", "restore_dir"} =>
           result[s] # NoResult /\ ret[s] = NoResult
      /\ Returned(s) =>
           /\ result[s] # NoResult
           /\ \A k \in Named(task[s]) : env[k] = prev_env[s][k]
           /\ prev_working_dir[s] # NoDir =>
                cwd = prev_working_dir[s] \/ "restore" \in reported[s]

\* C10 witness: the macro runs with two overrides in force, in the requested
\* directory
C10_Witness ==
  /\ pc[1] = "running"
  /\ Len(task[1].env) = 2 /\ Distinct(task[1])
  /\ \A k \in Named(task[1]) : env[k] # pre[1].env[k]
  /\ task[1].current_dir # NoDir /\ cwd = task[1].current_dir /\ cwd # pre[1].cwd

\* the step of server s that ends its call of expander() at the cache
Resolves(s) == pc[s] = "entry" /\ pc'[s] # "entry"
KeyOf(s) == <<task[s].lib, time[s]>>

\* C2: two successive resolutions of a path whose modification time is the
\* same return the same handle instance, the second without a call of the
\* loader; once the loader has succeeded for a (path, mtime) it is never
\* called for it again, so it is called exactly once if its first call
\* succeeded.
C2_CacheIdentity ==
  [][\A s \in Srv :
       /\ Resolves(s) /\ last[s][task[s].lib].time = time[s]
            /\ last[s][task[s].lib].expander # NoHandle
          => /\ expander'[s] = last[s][task[s].lib].expander
             /\ new_calls'[s] = new_calls[s]
       /\ \A k \in Keys :
            new_oks[s][k] >= 1 =>
              new_calls'[s][k] = new_calls[s][k] /\ new_oks'[s][k] = 1
     ]_vars

\* C2 witness: a call found the handle that the call before it had loaded,
\* and the loader has been called once for the identity
C2_Witness ==
  /\ Returned(1) /\ expander[1] # NoHandle
  /\ KeyOf(1) \in DOMAIN pre[1].expanders
  /\ pre[1].expanders[KeyOf(1)] = expander[1]
  /\ new_calls[1][KeyOf(1)] = 1

\* C3 as stated (with a loadable file): a resolution that sees another
\* modification time than the resolution of the path before it calls the
\* loader afresh and yields a handle distinct from the earlier one.
C3_ReloadOnChange ==
  [][\A s \in Srv :
       Resolves(s) /\ last[s][task[s].lib].time \notin {0, time[s]}
         /\ NewOk(files[task[s].lib])
       => /\ new_calls'[s][KeyOf(s)] = new_calls[s][KeyOf(s)] + 1
          /\ expander'[s] # NoHandle
          /\ expander'[s] # last[s][task[s].lib].expander
     ]_vars

\* C3 amended: a resolution that sees another modification time than the
\* resolution of the path before it calls the loader afresh iff no entry for
\* (path, that time) is cached; then, if the load succeeds, it yields a handle
\* that is none of the cached ones, and if the load fails it yields none.
\* When the time is one the path was cached under before (the mtime went
\* back), it yields that old entry's handle without a load.  A handle it
\* yields is never the one the earlier resolution returned.
C3_ReloadOnNewIdentity ==
  [][\A s \in Srv :
       Resolves(s) /\ last[s][task[s].lib].time \notin {0, time[s]} =>
         /\ IF KeyOf(s) \in DOMAIN expanders[s]
              THEN /\ new_calls'[s] = new_calls[s]
                   /\ expander'[s] = expanders[s][KeyOf(s)]
              ELSE /\ new_calls'[s][KeyOf(s)] = new_calls[s][KeyOf(s)] + 1
                   /\ IF NewOk(files[task[s].lib])
                        THEN /\ expander'[s] # NoHandle
                             /\ \A k \in DOMAIN expanders[s] :
                                  expander'[s] # expanders[s][k]
                        ELSE expander'[s] = NoHandle
         /\ expander'[s] # NoHandle => expander'[s] # last[s][task[s].lib].expander
     ]_vars

\* C3 witness: the dylib was rebuilt between two calls and the second call
\* loaded it afresh
C3_Witness ==
  /\ Returned(1) /\ expander[1] # NoHandle
  /\ KeyOf(1) \notin DOMAIN pre[1].expanders
  /\ \E k \in DOMAIN pre[1].expanders : k[1] = task[1].lib /\ k[2] # time[1]
  /\ expanders[1][KeyOf(1)] = expander[1]

\* C5: a resolution that fails (stat or loader) inserts nothing and leaves
\* every entry as it was; a resolution of a path that is there and loadable
\* succeeds; and the loader succeeds exactly once for an identity that
\* resolves, however often it is resolved afterwards.
C5_LoadFailurePartition ==
  [][\A s \in Srv :
       /\ pc[s] \in {"stat", "entry"} /\ pc'[s] \in {"done", "panicked"}
            /\ expander'[s] = NoHandle
          => expanders'[s] = expanders[s] /\ expanders[s] = pre[s].expanders
       /\ pc[s] = "stat" /\ pc'[s] # "stat" /\ files[task[s].lib].exists
          => pc'[s] = "entry"
       /\ Resolves(s) /\ NewOk(files[task[s].lib]) => expander'[s] # NoHandle
       /\ Resolves(s) /\ expander'[s] # NoHandle => new_oks'[s][KeyOf(s)] = 1
     ]_vars

\* C5 witness: the loader failed for a path, succeeded at the next call, and
\* a call after that found the handle in the cache
C5_Witness ==
  /\ Returned(1) /\ expander[1] # NoHandle
  /\ KeyOf(1) \in DOMAIN pre[1].expanders
  /\ new_calls[1][KeyOf(1)] = 2
  /\ new_oks[1][KeyOf(1)] = 1

\* C7: the cache only grows: no step removes an entry or replaces the handle
\* under an identity; the handle under an identity is the first and only one
\* ever created for it.
C7_CacheGrows ==
  [][\A s \in Srv :
       /\ \A k \in DOMAIN expanders[s] :
            k \in DOMAIN expanders'[s] /\ expanders'[s][k] = expanders[s][k]
       /\ \A k \in DOMAIN expanders'[s] : expanders'[s][k].id = <<k[1], k[2], 1>>
     ]_vars

\* C7 witness: after a rebuild the entry of the superseded timestamp is
\* still in the cache, beside the new one
C7_Witness ==
  /\ \A t \in {1, 2} : <<"p", t>> \in DOMAIN expanders[1]
  /\ files["p"].exists /\ files["p"].mtime = 2
  /\ expanders[1][<<"p", 1>>] # expanders[1][<<"p", 2>>]

\* the other of the two servers
Other(s) == CHOOSE o \in Srv : o # s

\* C9: two expand calls that override the same variable and are not
\* serialized corrupt each other.  What holds of every interleaving: a
\* running macro finds another value than its override only once the other
\* call has written the variable, and when both calls have returned with the
\* variable changed, its value is a snapshot that one call took of the
\* other's override and put back.
C9_StaleSnapshot ==
  /\ \A s \in Srv :
       pc[s] = "running" /\ env["K1"] # Requested(task[s], "K1") =>
         pc[Other(s)] \in {"chdir", "invoke", "running", "restore", "restore_dir", "done"}
  /\ (\A s \in Srv : Returned(s) /\ Expanding(s)) /\ env["K1"] # NoEnv["K1"] =>
       \E s \in Srv :
         /\ env["K1"] = prev_env[s]["K1"]
         /\ prev_env[s]["K1"] = Requested(task[Other(s)], "K1")

\* C9 witness: the macro of call 1 was entered with its override in force;
\* while it ran, the restore of call 2 removed the variable; and when both
\* calls had returned the variable, unset before them, was left set
C9_Witness ==
  /\ \A s \in Srv : Returned(s) /\ Expanding(s)
  /\ Len(seen[1]) = 2
  /\ seen[1][1]["K1"] = Requested(task[1], "K1")
  /\ seen[1][2]["K1"] = Unset
  /\ prev_env[2]["K1"] = Unset
  /\ env["K1"] # NoEnv["K1"]

\* C11: every expand call whose handle resolves enters the handle's expand
\* exactly once: it is entered only from the line of the call, by a call
\* that holds its handle and has not entered it before, and such a call has
\* entered it and got its outcome when it returns; this also when the
\* change to the requested directory failed, the macro then running in the
\* directory the process was in.  A call that ends without a handle never
\* entered an expander.
C11_ExactlyOneInvocation ==
  [][\A s \in Srv :
       /\ pc[s] # "running" /\ pc'[s] = "running" =>
            /\ pc[s] = "invoke" /\ Expanding(s)
            /\ seen[s] = <<>> /\ Len(seen'[s]) = 1
            /\ "chdir" \in reported[s] => cwd' = pre[s].cwd
       /\ Len(seen'[s]) > Len(seen[s]) => pc[s] \in {"invoke", "running"}
       /\ pc[s] # "done" /\ pc'[s] = "done" =>
            Len(seen'[s]) = IF task[s].op = "expand" /\ expander'[s] # NoHandle
                              THEN 2 ELSE 0
       /\ pc'[s] = "panicked" => seen'[s] = <<>> /\ expander'[s] = NoHandle
     ]_vars

\* C11 witness: the change to the requested directory failed, the macro was
\* entered all the same, in the directory the call started in, and the call
\* has returned its outcome
C11_Witness ==
  /\ Returned(1) /\ Expanding(1)
  /\ task[1].current_dir # NoDir /\ "chdir" \in reported[1]
  /\ Len(seen[1]) = 2 /\ result[1] # NoResult
  /\ cwd = pre[1].cwd /\ cwd # task[1].current_dir

\* C12: the value an expand whose handle resolves returns is the expander's
\* outcome: Ok with the tree for Ok, Err(PanicMessage) with the expander's
\* own text for Err, whether or not the change to the requested directory
\* or the change back was reported as failed.
C12_ResultIndependence ==
  \A s \in Srv :
    Returned(s) /\ Expanding(s) =>
      /\ result[s] \in ExpandOutcomes
      /\ result[s].kind = "Ok" => ret[s] = Ok("FlatTree", result[s].val)
      /\ result[s].kind = "Err" => ret[s] = Err("PanicMessage", result[s].val)

\* C12 witness: both the change to the requested directory and the change
\* back failed, and the call returned the tree the macro produced
C12_Witness ==
  /\ Returned(1) /\ Expanding(1)
  /\ reported[1] = {"chdir", "restore"}
  /\ result[1] = Ok("Subtree", <<"tree">>)
  /\ ret[1] = Ok("FlatTree", <<"tree">>)

\* C13: when the override list of an expand request names a variable more
\* than once, the snapshot holds for the variable the value it had before
\* the first override, and after expand returns the variable holds its value
\* from before the call (or is absent if it was absent).
C13_RepeatedNamesRestored ==
  \A s \in Srv :
    Returned(s) /\ Expanding(s) /\ ~Distinct(task[s]) =>
      \A k \in Named(task[s]) :
        prev_env[s][k] = pre[s].env[k] /\ env[k] = pre[s].env[k]

\* C14: in every reachable state the handle stored under the identity
\* (path, t) was loaded from the version of the file whose modification
\* time is t.
C14_HandleMatchesKey ==
  \A s \in Srv :
    \A k \in DOMAIN expanders[s] : expanders[s][k].loaded = k[2]

\* the positions of expand at which it reads or writes the environment or
\* the working directory, or is inside the macro
Scoping == {"var_os", "set_var", "chdir", "invoke", "running", "restore", "restore_dir"}

\* C15: a call is at a position where it reads or writes the environment or
\* the working directory only as an expand that holds its handle; at every
\* position of an expand without a handle and of a list_macros, and when
\* such a call has ended (with Ok, with Err, or in the debug_assert! panic),
\* the environment and the working directory are as they were before the
\* call, and no snapshot of either was taken.
C15_NoScopingWithoutHandle ==
  \A s \in Srv :
    /\ pc[s] \in Scoping => Expanding(s)
    /\ pc[s] # "idle" /\ ~Expanding(s) =>
         /\ env = pre[s].env /\ cwd = pre[s].cwd
         /\ prev_env[s] = EmptyMap /\ prev_working_dir[s] = NoDir
         /\ reported[s] = {} /\ seen[s] = <<>>

\* C15 witness: an expand that asked for overrides and another directory
\* failed to get its handle and has returned the error
C15_Witness ==
  /\ Returned(1) /\ task[1].op = "expand" /\ expander[1] = NoHandle
  /\ Len(task[1].env) > 0
  /\ \A k \in Named(task[1]) : env[k] # Requested(task[1], k)
  /\ task[1].current_dir \in dirs \ {cwd}
  /\ ret[1].kind = "Err"
  /\ env = pre[1].env /\ cwd = pre[1].cwd

\* the step is one of the call of server s
Moves(s) == pc'[s] # pc[s] \/ idx'[s] # idx[s]
\* the request of the call a step of server s belongs to
TaskOf(s) == IF pc[s] = "idle" THEN task'[s] ELSE task[s]

\* C16: a step of an expand leaves every environment variable that the
\* request's overrides do not name as it is; when the request has no
\* working-directory override it leaves the working directory as it is and
\* takes no reading of it; it leaves every cache entry as it is, and the one
\* entry it may add is the one of the requested path and the modification
\* time the call has read.
C16_FrameOfExpand ==
  [][\A s \in Srv :
       Moves(s) /\ TaskOf(s).op = "expand" =>
         /\ \A k \in Vars \ Named(TaskOf(s)) : env'[k] = env[k]
         /\ TaskOf(s).current_dir = NoDir =>
              cwd' = cwd /\ prev_working_dir'[s] = NoDir
         /\ \A k \in DOMAIN expanders[s] :
              k \in DOMAIN expanders'[s] /\ expanders'[s][k] = expanders[s][k]
         /\ DOMAIN expanders'[s] \subseteq DOMAIN expanders[s] \cup {KeyOf(s)}
         /\ \A o \in Srv \ {s} : expanders'[o] = expanders[o]
     ]_vars

\* C16 witness: an expand that overrode K1 alone and no directory has
\* returned; the macro ran with K1 changed, K2 and the working directory are
\* as before, and the cache has the one new entry of the call
C16_Witness ==
  /\ Returned(1) /\ Expanding(1)
  /\ Named(task[1]) = {"K1"} /\ task[1].current_dir = NoDir
  /\ seen[1][1]["K1"] # pre[1].env["K1"]
  /\ env["K2"] = pre[1].env["K2"] /\ cwd = pre[1].cwd
  /\ KeyOf(1) \notin DOMAIN pre[1].expanders
  /\ DOMAIN expanders[1] = DOMAIN pre[1].expanders \cup {KeyOf(1)}

====
